---- MODULE Spec2Model ----
(***************************************************************************)
(* Model of two subsystems of beartype:                                    *)
(*   - beartype/_decor/conf.py: the BeartypeStrategy enumeration, the      *)
(*     BeartypeConfiguration class and the BEAR_CONF_DEFAULT singleton;    *)
(*   - beartype/_util/func/arg/utilfuncargtest.py: the callable parameter  *)
(*     testers and validators.                                             *)
(* Python values are modelled as strings (their repr, tagged with the type *)
(* where the type matters), object identities as indices into the heap.    *)
(***************************************************************************)
EXTENDS Integers, Sequences, FiniteSets, TLC

VARIABLES
    heap,        \* BeartypeConfiguration objects ever allocated, by identity
    pc,          \* per thread: position inside BeartypeConfiguration(...)
    frame,       \* per thread: arguments and locals of the call in progress
    mutations,   \* number of attribute assignments made by clients so far
    func,        \* the object passed to the parameter testers
    call,        \* the tester or validator last called on func, and its arguments
    result       \* what that call returned or raised

confVars == <<heap, pc, frame, mutations>>

argVars == <<func, call, result>>

vars == <<heap, pc, frame, mutations, func, call, result>>

(***************************************************************************)
(* Bounds.                                                                 *)
(***************************************************************************)
\* Number of BeartypeConfiguration objects allocated, BEAR_CONF_DEFAULT included.
MaxObjects == 3
\* Number of attribute assignments clients make on published configurations.
MaxMutations == 1

\* Number of parameters a callable declares.
MaxParams == 2
\* Number of wrappers (objects with a __wrapped__ attribute) around a callable.
MaxWrapDepth == 2

\* Threads calling BeartypeConfiguration(...) concurrently.
Threads == {"t1", "t2"}

(***************************************************************************)
(* conf.py: values.                                                        *)
(***************************************************************************)
\* The members of the BeartypeStrategy enumeration.
BeartypeStrategy == {"O0", "O1", "Ologn", "On"}

\* The two instances of bool.
PyBool == {"False", "True"}

\* Marker of an argument the caller did not pass.
Omitted == "<omitted>"

\* Marker of an instance attribute that has not been assigned.
Unset == "<unset>"

\* Values a caller passes as is_debug: the booleans and the integer 1.
DebugArgs == PyBool \cup {"int:1"}

\* Values a caller passes as strategy: the members and the string 'O1'.
StrategyArgs == BeartypeStrategy \cup {"str:O1"}

\* Default value of the is_debug parameter.
DefaultIsDebug == "False"

\* Default value of the strategy parameter.
DefaultStrategy == "O1"

\* Identity of the object bound to BEAR_CONF_DEFAULT.
BEAR_CONF_DEFAULT == 1

(***************************************************************************)
(* conf.py: BeartypeConfiguration.__init__, statement by statement.        *)
(***************************************************************************)
\* Binding of an optional parameter: the default when the argument is omitted.
BindParam(arg, default) == IF arg = Omitted THEN default ELSE arg

\* isinstance(is_debug, bool)
IsInstanceBool(v) == v \in PyBool

\* Validation of strategy left unimplemented.
IsInstanceStrategy_Unchecked(v) == v # Unset

\* isinstance(strategy, BeartypeStrategy)
IsInstanceStrategy(v) == v \in BeartypeStrategy

\* object.__new__(BeartypeConfiguration): an instance with no attribute
\* assigned.  ctor_debug, ctor_strategy, state and exc are history fields:
\* the bound arguments of the constructing call, whether the call is still
\* running, returned the object or dropped it, and the exception it raised.
NewObject(d, s) ==
    [is_debug |-> Unset, strategy |-> Unset,
     ctor_debug |-> d, ctor_strategy |-> s, state |-> "constructing",
     exc |-> ""]

\* self.is_debug = is_debug
AssignIsDebug(obj, d) == [obj EXCEPT !.is_debug = d]

\* self.strategy assigned the default instead of the parameter.
AssignStrategy_Default(obj, s) == [obj EXCEPT !.strategy = DefaultStrategy]

\* self.strategy = strategy
AssignStrategy(obj, s) == [obj EXCEPT !.strategy = s]

\* The whole of BeartypeConfiguration(d, s) run by one thread alone, as at
\* module import: the resulting object, or the dropped one when it raises.
ConstructAlone(dArg, sArg) ==
    LET d == BindParam(dArg, DefaultIsDebug)
        s == BindParam(sArg, DefaultStrategy)
        o == NewObject(d, s)
    IN  IF ~IsInstanceBool(d) \/ ~IsInstanceStrategy(s)
        THEN [o EXCEPT !.state = "dropped", !.exc = "ValueError"]
        ELSE [AssignStrategy(AssignIsDebug(o, d), s) EXCEPT !.state = "returned"]

Idle == [dArg |-> Omitted, sArg |-> Omitted,
         is_debug |-> Unset, strategy |-> Unset, self |-> 0]

\* State after importing beartype._decor.conf: BEAR_CONF_DEFAULT is built.
ConfInit ==
    /\ heap = <<ConstructAlone(Omitted, Omitted)>>
    /\ pc = [t \in Threads |-> "idle"]
    /\ frame = [t \in Threads |-> Idle]
    /\ mutations = 0

\* Objects some client holds a reference to.
Published == {o \in DOMAIN heap : heap[o].state = "returned"}

\* t calls BeartypeConfiguration(dArg, sArg): type.__call__ allocates the
\* instance and enters __init__ with the parameters bound.
Call(t, dArg, sArg) ==
    /\ pc[t] = "idle"
    /\ Len(heap) < MaxObjects
    /\ LET d == BindParam(dArg, DefaultIsDebug)
           s == BindParam(sArg, DefaultStrategy)
       IN  /\ heap' = Append(heap, NewObject(d, s))
           /\ frame' = [frame EXCEPT ![t] =
                  [dArg |-> dArg, sArg |-> sArg,
                   is_debug |-> d, strategy |-> s, self |-> Len(heap) + 1]]
    /\ pc' = [pc EXCEPT ![t] = "check_debug"]
    /\ UNCHANGED <<mutations, argVars>>

\* The exception leaves __init__ and the call: the instance is dropped.
Raise(t, exc) ==
    /\ heap' = [heap EXCEPT ![frame[t].self].state = "dropped",
                        ![frame[t].self].exc = exc]
    /\ pc' = [pc EXCEPT ![t] = "idle"]
    /\ frame' = [frame EXCEPT ![t] = Idle]
    /\ UNCHANGED <<mutations, argVars>>

\* if not isinstance(is_debug, bool): raise ValueError()
CheckDebug(t) ==
    /\ pc[t] = "check_debug"
    /\ IF IsInstanceBool(frame[t].is_debug)
       THEN /\ pc' = [pc EXCEPT ![t] = "check_strategy"]
            /\ UNCHANGED <<heap, frame, mutations, argVars>>
       ELSE Raise(t, "ValueError")

\* if not isinstance(strategy, BeartypeStrategy): raise ValueError()
CheckStrategy(t) ==
    /\ pc[t] = "check_strategy"
    /\ IF IsInstanceStrategy(frame[t].strategy)
       THEN /\ pc' = [pc EXCEPT ![t] = "assign_debug"]
            /\ UNCHANGED <<heap, frame, mutations, argVars>>
       ELSE Raise(t, "ValueError")

\* self.is_debug = is_debug
SetIsDebug(t) ==
    /\ pc[t] = "assign_debug"
    /\ heap' = [heap EXCEPT ![frame[t].self] = AssignIsDebug(@, frame[t].is_debug)]
    /\ pc' = [pc EXCEPT ![t] = "assign_strategy"]
    /\ UNCHANGED <<frame, mutations, argVars>>

\* self.strategy = strategy
SetStrategy(t) ==
    /\ pc[t] = "assign_strategy"
    /\ heap' = [heap EXCEPT ![frame[t].self] = AssignStrategy(@, frame[t].strategy)]
    /\ pc' = [pc EXCEPT ![t] = "return"]
    /\ UNCHANGED <<frame, mutations, argVars>>

\* __init__ returns None and the call evaluates to the instance.
Return(t) ==
    /\ pc[t] = "return"
    /\ heap' = [heap EXCEPT ![frame[t].self].state = "returned"]
    /\ pc' = [pc EXCEPT ![t] = "idle"]
    /\ frame' = [frame EXCEPT ![t] = Idle]
    /\ UNCHANGED <<mutations, argVars>>

\* A client holding a configuration assigns one of its attributes: the class
\* declares neither __slots__ nor __setattr__, so the assignment succeeds
\* with any value.
SetAttrIsDebug(o, v) ==
    /\ o \in Published
    /\ mutations < MaxMutations
    /\ heap' = [heap EXCEPT ![o].is_debug = v]
    /\ mutations' = mutations + 1
    /\ UNCHANGED <<pc, frame, argVars>>

SetAttrStrategy(o, v) ==
    /\ o \in Published
    /\ mutations < MaxMutations
    /\ heap' = [heap EXCEPT ![o].strategy = v]
    /\ mutations' = mutations + 1
    /\ UNCHANGED <<pc, frame, argVars>>

\* The steps of the threads running BeartypeConfiguration(...).
ConstructNext ==
    \/ \E t \in Threads, dArg \in DebugArgs \cup {Omitted},
          sArg \in StrategyArgs \cup {Omitted} : Call(t, dArg, sArg)
    \/ \E t \in Threads : CheckDebug(t)
    \/ \E t \in Threads : CheckStrategy(t)
    \/ \E t \in Threads : SetIsDebug(t)
    \/ \E t \in Threads : SetStrategy(t)
    \/ \E t \in Threads : Return(t)

\* The steps of the clients holding configurations.
ClientNext ==
    \/ \E o \in DOMAIN heap, v \in DebugArgs : SetAttrIsDebug(o, v)
    \/ \E o \in DOMAIN heap, v \in StrategyArgs : SetAttrStrategy(o, v)

(***************************************************************************)
(* utilfuncargtest.py: the objects passed as func.                         *)
(***************************************************************************)
\* Kinds of parameters, in the order a declaration lists them.
ArgKinds ==
    <<"POSITIONAL_ONLY", "POSITIONAL_OR_KEYWORD", "VAR_POSITIONAL",
      "KEYWORD_ONLY", "VAR_KEYWORD">>

KindRank(k) == CHOOSE i \in DOMAIN ArgKinds : ArgKinds[i] = k

\* Names of parameters.
ArgNames == {"a", "b", "c"}

\* A declared parameter: its name, its kind and whether it has a default.
Params ==
    {p \in [name : ArgNames, kind : {ArgKinds[i] : i \in DOMAIN ArgKinds},
            dflt : BOOLEAN] :
        p.kind \in {"VAR_POSITIONAL", "VAR_KEYWORD"} => ~p.dflt}

IsPositional(p) == p.kind \in {"POSITIONAL_ONLY", "POSITIONAL_OR_KEYWORD"}

\* The parameter lists Python accepts in a def statement: names distinct,
\* kinds in declaration order, at most one collector of each kind, and no
\* positional parameter without a default after one with a default.
IsDeclaration(sig) ==
    \A i, j \in DOMAIN sig : i < j =>
        /\ sig[i].name # sig[j].name
        /\ KindRank(sig[i].kind) <= KindRank(sig[j].kind)
        /\ sig[i].kind = sig[j].kind =>
               sig[i].kind \notin {"VAR_POSITIONAL", "VAR_KEYWORD"}
        /\ (IsPositional(sig[i]) /\ IsPositional(sig[j]) /\ sig[i].dflt)
               => sig[j].dflt

Declarations ==
    {sig \in UNION {[1..n -> Params] : n \in 0..MaxParams} : IsDeclaration(sig)}

\* Declarations of wrappers: def wrapper(*a, **b) and def wrapper().
WrapperDeclarations ==
    { <<[name |-> "a", kind |-> "VAR_POSITIONAL", dflt |-> FALSE],
        [name |-> "b", kind |-> "VAR_KEYWORD", dflt |-> FALSE]>>,
      <<>> }

\* Bit of co_flags set when the callable declares *args.
CO_VARARGS == 4

\* Bit of co_flags set when the callable declares **kwargs.
CO_VARKEYWORDS == 8

\* The other bits of co_flags: CO_OPTIMIZED | CO_NEWLOCALS of a plain
\* function, and CO_GENERATOR in addition for a generator function.
OtherFlags == {3, 35}

SelectKind(sig, kinds) == SelectSeq(sig, LAMBDA p : p.kind \in kinds)

Names(sig) == [i \in DOMAIN sig |-> sig[i].name]

\* The code object of a callable declared with sig: the counts and flags
\* the testers read, and the parameter names in co_varnames order.
CodeOf(sig, other) ==
    [co_argcount |->
         Len(SelectKind(sig, {"POSITIONAL_ONLY", "POSITIONAL_OR_KEYWORD"})),
     co_posonlyargcount |-> Len(SelectKind(sig, {"POSITIONAL_ONLY"})),
     co_kwonlyargcount |-> Len(SelectKind(sig, {"KEYWORD_ONLY"})),
     co_flags |->
         other
         + (IF SelectKind(sig, {"VAR_POSITIONAL"}) # <<>> THEN CO_VARARGS ELSE 0)
         + (IF SelectKind(sig, {"VAR_KEYWORD"}) # <<>> THEN CO_VARKEYWORDS ELSE 0),
     co_varnames |->
         Names(SelectKind(sig, {"POSITIONAL_ONLY", "POSITIONAL_OR_KEYWORD"}))
         \o Names(SelectKind(sig, {"KEYWORD_ONLY"}))
         \o Names(SelectKind(sig, {"VAR_POSITIONAL"}))
         \o Names(SelectKind(sig, {"VAR_KEYWORD"}))]

NoCode ==
    [co_argcount |-> 0, co_posonlyargcount |-> 0, co_kwonlyargcount |-> 0,
     co_flags |-> 0, co_varnames |-> <<>>]

\* An object passed as func.  kind tells what it is; sig is the declaration
\* of the pure-Python callable at the end of the __wrapped__ chain (of the
\* callable the code object or frame belongs to), code its code object, and
\* wrappers the code objects of the wrappers around it, outermost first.
FuncObject(kind, sig, other, wrapperSigs) ==
    [kind |-> kind, sig |-> sig,
     code |-> IF kind \in {"function", "code", "frame"}
              THEN CodeOf(sig, other) ELSE NoCode,
     wrappers |-> [i \in DOMAIN wrapperSigs |-> CodeOf(wrapperSigs[i], 3)]]

WrapperChains ==
    UNION {[1..n -> WrapperDeclarations] : n \in 0..MaxWrapDepth}

\* The objects the testers are called on: pure-Python functions, wrapped or
\* not, code objects, frames, builtin (C-based) callables and non-callables.
FuncObjects ==
    {FuncObject("function", sig, other, w) :
        sig \in Declarations, other \in OtherFlags, w \in WrapperChains}
    \cup {FuncObject(k, sig, other, <<>>) :
        k \in {"code", "frame"}, sig \in Declarations, other \in OtherFlags}
    \cup {FuncObject(k, <<>>, 3, w) :
        k \in {"builtin", "noncallable"}, w \in {<<>>}}

\* A code object passed where a codeobjable is expected.
CodeObjectAsFunc(codeobj) ==
    [kind |-> "code", sig |-> <<>>, code |-> codeobj, wrappers |-> <<>>]

(***************************************************************************)
(* utilfuncargtest.py: results of calls.                                   *)
(***************************************************************************)
\* Default of the exception_cls parameters.
DefaultExceptionCls == "_BeartypeUtilCallableException"

\* Exception classes a caller passes as exception_cls.
ExceptionClasses == {DefaultExceptionCls, "CustomException"}

Returned(value) ==
    [status |-> "return", value |-> value, exc |-> "", origin |-> "",
     msg |-> <<>>, codeobj |-> NoCode]

ReturnedCode(codeobj) ==
    [status |-> "return", value |-> "code", exc |-> "", origin |-> "",
     msg |-> <<>>, codeobj |-> codeobj]

Raised(exc, origin, msg) ==
    [status |-> "raise", value |-> "", exc |-> exc, origin |-> origin,
     msg |-> msg, codeobj |-> NoCode]

NoResult ==
    [status |-> "none", value |-> "", exc |-> "", origin |-> "",
     msg |-> <<>>, codeobj |-> NoCode]

\* str() of a bool.
BoolStr(b) == IF b THEN "True" ELSE "False"

Digits == <<"0", "1", "2", "3", "4", "5", "6", "7", "8", "9">>

\* The decimal rendering an f-string gives an int.
RECURSIVE IntToStr(_)
IntToStr(n) ==
    IF n < 0 THEN "-" \o IntToStr(0 - n)
    ELSE IF n < 10 THEN Digits[n + 1]
    ELSE IntToStr(n \div 10) \o Digits[(n % 10) + 1]

\* repr(func)
Repr(f) == "<" \o f.kind \o " f" \o IntToStr(Len(f.wrappers)) \o ">"

\* x & y on non-negative integers.
RECURSIVE BitAnd(_, _)
BitAnd(x, y) ==
    IF x = 0 \/ y = 0 THEN 0
    ELSE 2 * BitAnd(x \div 2, y \div 2) + (IF x % 2 = 1 /\ y % 2 = 1 THEN 1 ELSE 0)

(***************************************************************************)
(* Collaborators of utilfuncargtest.py defined in other submodules.        *)
(***************************************************************************)
\* func.__code__: the code object of the object itself, which is the
\* outermost wrapper when there is one.
OwnCode(f) == IF f.wrappers = <<>> THEN f.code ELSE f.wrappers[1]

\* hasattr(func, '__wrapped__')
HasWrapped(f) == f.wrappers # <<>>

\* func.__wrapped__: the object the wrapper forwards to.
Wrapped(f) == [f EXCEPT !.wrappers = Tail(@)]

\* The unwrap loop: follow __wrapped__ until an object has none.
RECURSIVE unwrap_func(_)
unwrap_func(f) == IF HasWrapped(f) THEN unwrap_func(Wrapped(f)) ELSE f

ResolvedCode(codeobj) ==
    [status |-> "return", exc |-> "", origin |-> "", msg |-> <<>>,
     codeobj |-> codeobj]

\* beartype._util.func.utilfunccodeobj.get_func_codeobj: the code object
\* underlying func, of the callable at the end of the __wrapped__ chain when
\* is_unwrapping; exception_cls is raised when func is no pure-Python
\* callable, frame or code object.
get_func_codeobj(f, is_unwrapping, exception_cls) ==
    IF f.kind \in {"code", "frame"} THEN ResolvedCode(f.code)
    ELSE IF f.kind = "function"
    THEN ResolvedCode(OwnCode(IF is_unwrapping THEN unwrap_func(f) ELSE f))
    ELSE [status |-> "raise", exc |-> exception_cls,
          origin |-> "get_func_codeobj",
          msg |-> <<Repr(f), " not pure-Python callable.">>,
          codeobj |-> NoCode]

\* beartype._util.func.arg.utilfuncargget.get_func_args_len_flexible: the
\* number of parameters passable either positionally or by keyword.
get_func_args_len_flexible(f, exception_cls) ==
    LET r == get_func_codeobj(f, TRUE, exception_cls)
    IN  [status |-> r.status, exc |-> r.exc, origin |-> r.origin, msg |-> r.msg,
         count |-> r.codeobj.co_argcount - r.codeobj.co_posonlyargcount]

\* Kind of the i-th parameter yielded for a code object.
ArgKindAt(codeobj, i) ==
    IF i <= codeobj.co_posonlyargcount THEN "POSITIONAL_ONLY"
    ELSE IF i <= codeobj.co_argcount THEN "POSITIONAL_OR_KEYWORD"
    ELSE IF i <= codeobj.co_argcount + codeobj.co_kwonlyargcount
    THEN "KEYWORD_ONLY"
    ELSE IF /\ BitAnd(codeobj.co_flags, CO_VARARGS) # 0
            /\ i = codeobj.co_argcount + codeobj.co_kwonlyargcount + 1
    THEN "VAR_POSITIONAL"
    ELSE "VAR_KEYWORD"

\* beartype._util.func.arg.utilfuncargiter.iter_func_args: one record, with a
\* name and a kind, for each parameter the callable accepts.
iter_func_args(f) ==
    LET r == get_func_codeobj(f, TRUE, DefaultExceptionCls)
    IN  [status |-> r.status, exc |-> r.exc, origin |-> r.origin, msg |-> r.msg,
         args |-> [i \in DOMAIN r.codeobj.co_varnames |->
                      [name |-> r.codeobj.co_varnames[i],
                       kind |-> ArgKindAt(r.codeobj, i)]]]

(***************************************************************************)
(* utilfuncargtest.py: validators and testers.                             *)
(***************************************************************************)
\* An exception raised by a callee leaves the caller as it is.
Propagate(r) == Raised(r.exc, r.origin, r.msg)

\* is_func_arg_variadic_positional answering False for what it cannot resolve.
is_func_arg_variadic_positional_Swallows(f) ==
    LET r == get_func_codeobj(f, TRUE, DefaultExceptionCls)
    IN  IF r.status = "raise" THEN Returned("False")
        ELSE Returned(BoolStr(BitAnd(r.codeobj.co_flags, CO_VARARGS) # 0))

\* is_func_arg_variadic_positional(func)
is_func_arg_variadic_positional(f) ==
    LET r == get_func_codeobj(f, TRUE, DefaultExceptionCls)
    IN  IF r.status = "raise" THEN Propagate(r)
        ELSE Returned(BoolStr(BitAnd(r.codeobj.co_flags, CO_VARARGS) # 0))

\* is_func_arg_variadic_keyword testing the CO_VARARGS bit.
is_func_arg_variadic_keyword_WrongBit(f) ==
    LET r == get_func_codeobj(f, TRUE, DefaultExceptionCls)
    IN  IF r.status = "raise" THEN Propagate(r)
        ELSE Returned(BoolStr(BitAnd(r.codeobj.co_flags, CO_VARARGS) # 0))

\* is_func_arg_variadic_keyword inspecting the wrapper itself.
is_func_arg_variadic_keyword_NoUnwrap(f) ==
    LET r == get_func_codeobj(f, FALSE, DefaultExceptionCls)
    IN  IF r.status = "raise" THEN Propagate(r)
        ELSE Returned(BoolStr(BitAnd(r.codeobj.co_flags, CO_VARKEYWORDS) # 0))

\* is_func_arg_variadic_keyword(func)
is_func_arg_variadic_keyword(f) ==
    LET r == get_func_codeobj(f, TRUE, DefaultExceptionCls)
    IN  IF r.status = "raise" THEN Propagate(r)
        ELSE Returned(BoolStr(BitAnd(r.codeobj.co_flags, CO_VARKEYWORDS) # 0))

\* is_func_arg_variadic requiring both collectors.
is_func_arg_variadic_And(f) ==
    LET p == is_func_arg_variadic_positional(f)
    IN  IF p.status = "raise" \/ p.value = "False" THEN p
        ELSE is_func_arg_variadic_keyword(f)

\* is_func_arg_variadic(func): positional or keyword, the second tester
\* being called only when the first returns False.
is_func_arg_variadic(f) ==
    LET p == is_func_arg_variadic_positional(f)
    IN  IF p.status = "raise" \/ p.value = "True" THEN p
        ELSE is_func_arg_variadic_keyword(f)

\* is_func_argless leaving co_kwonlyargcount out of the sum.
is_func_argless_NoKwonly(f, exception_cls) ==
    LET r == get_func_codeobj(f, TRUE, exception_cls)
    IN  IF r.status = "raise" THEN Propagate(r)
        ELSE IF r.codeobj.co_argcount > 0
        THEN Returned("False")
        ELSE LET v == is_func_arg_variadic(CodeObjectAsFunc(r.codeobj))
             IN  IF v.status = "raise" THEN v
                 ELSE Returned(BoolStr(~(v.value = "True")))

\* is_func_argless(func, exception_cls)
is_func_argless(f, exception_cls) ==
    LET r == get_func_codeobj(f, TRUE, exception_cls)
    IN  IF r.status = "raise" THEN Propagate(r)
        ELSE IF r.codeobj.co_argcount + r.codeobj.co_kwonlyargcount > 0
        THEN Returned("False")
        ELSE LET v == is_func_arg_variadic(CodeObjectAsFunc(r.codeobj))
             IN  IF v.status = "raise" THEN v
                 ELSE Returned(BoolStr(~(v.value = "True")))

\* die_unless_func_args_len_flexible_equal raising only for too few parameters.
die_unless_func_args_len_flexible_equal_Less(f, func_args_len_flexible, exception_cls) ==
    LET r == get_func_args_len_flexible(f, exception_cls)
    IN  IF r.status = "raise" THEN Propagate(r)
        ELSE IF r.count < func_args_len_flexible
        THEN Raised(exception_cls, "die_unless_func_args_len_flexible_equal",
                    <<"Callable ", Repr(f), " flexible argument count ",
                      IntToStr(r.count), " != ",
                      IntToStr(func_args_len_flexible), ".">>)
        ELSE Returned("None")

\* die_unless_func_args_len_flexible_equal(func, func_args_len_flexible,
\* exception_cls)
die_unless_func_args_len_flexible_equal(f, func_args_len_flexible, exception_cls) ==
    LET r == get_func_args_len_flexible(f, exception_cls)
    IN  IF r.status = "raise" THEN Propagate(r)
        ELSE IF r.count # func_args_len_flexible
        THEN Raised(exception_cls, "die_unless_func_args_len_flexible_equal",
                    <<"Callable ", Repr(f), " flexible argument count ",
                      IntToStr(r.count), " != ",
                      IntToStr(func_args_len_flexible), ".">>)
        ELSE Returned("None")

\* any(arg_meta.name == arg_name for arg_meta in args[i:])
RECURSIVE AnyNamed(_, _, _)
AnyNamed(args, i, arg_name) ==
    IF i > Len(args) THEN FALSE
    ELSE IF args[i].name = arg_name THEN TRUE
    ELSE AnyNamed(args, i + 1, arg_name)

\* is_func_arg_name searching the non-variadic parameters only.
is_func_arg_name_NoVariadic(f, arg_name) ==
    LET it == iter_func_args(f)
        named == SelectSeq(it.args,
                     LAMBDA m : m.kind \notin {"VAR_POSITIONAL", "VAR_KEYWORD"})
    IN  IF it.status = "raise" THEN Propagate(it)
        ELSE Returned(BoolStr(AnyNamed(named, 1, arg_name)))

\* is_func_arg_name(func, arg_name)
is_func_arg_name(f, arg_name) ==
    LET it == iter_func_args(f)
    IN  IF it.status = "raise" THEN Propagate(it)
        ELSE Returned(BoolStr(AnyNamed(it.args, 1, arg_name)))

(***************************************************************************)
(* Calls of the testers and validators on func.                            *)
(***************************************************************************)
CallOf(op, exception_cls, n, arg_name) ==
    [op |-> op, exception_cls |-> exception_cls, n |-> n, arg_name |-> arg_name]

NoCall == CallOf("", "", 0, "")

\* Values callers pass as func_args_len_flexible.
ExpectedLens == 0..MaxParams

\* Values callers pass as arg_name: the parameter names and one more name.
ArgNameArgs == ArgNames \cup {"z"}

\* No tester is being called: the state the configuration API runs in.
ArgsIdle ==
    /\ func = FuncObject("noncallable", <<>>, 3, <<>>)
    /\ call = NoCall
    /\ result = NoResult

\* Some object is about to be inspected.
ArgsInit ==
    /\ func \in FuncObjects
    /\ call = NoCall
    /\ result = NoResult

IsFuncArgless(exception_cls) ==
    /\ call = NoCall
    /\ call' = CallOf("is_func_argless", exception_cls, 0, "")
    /\ result' = is_func_argless(func, exception_cls)
    /\ UNCHANGED <<func, confVars>>

IsFuncArgVariadic ==
    /\ call = NoCall
    /\ call' = CallOf("is_func_arg_variadic", "", 0, "")
    /\ result' = is_func_arg_variadic(func)
    /\ UNCHANGED <<func, confVars>>

IsFuncArgVariadicPositional ==
    /\ call = NoCall
    /\ call' = CallOf("is_func_arg_variadic_positional", "", 0, "")
    /\ result' = is_func_arg_variadic_positional(func)
    /\ UNCHANGED <<func, confVars>>

IsFuncArgVariadicKeyword ==
    /\ call = NoCall
    /\ call' = CallOf("is_func_arg_variadic_keyword", "", 0, "")
    /\ result' = is_func_arg_variadic_keyword(func)
    /\ UNCHANGED <<func, confVars>>

DieUnlessFuncArgsLenFlexibleEqual(n, exception_cls) ==
    /\ call = NoCall
    /\ call' = CallOf("die_unless_func_args_len_flexible_equal", exception_cls, n, "")
    /\ result' = die_unless_func_args_len_flexible_equal(func, n, exception_cls)
    /\ UNCHANGED <<func, confVars>>

IsFuncArgName(arg_name) ==
    /\ call = NoCall
    /\ call' = CallOf("is_func_arg_name", "", 0, arg_name)
    /\ result' = is_func_arg_name(func, arg_name)
    /\ UNCHANGED <<func, confVars>>

ArgsNext ==
    \/ \E e \in ExceptionClasses : IsFuncArgless(e)
    \/ IsFuncArgVariadic
    \/ IsFuncArgVariadicPositional
    \/ IsFuncArgVariadicKeyword
    \/ \E n \in ExpectedLens, e \in ExceptionClasses :
          DieUnlessFuncArgsLenFlexibleEqual(n, e)
    \/ \E a \in ArgNameArgs : IsFuncArgName(a)

(***************************************************************************)
(* Specifications.                                                         *)
(***************************************************************************)
\* The module is imported and no tester is being called.
Init == ConfInit /\ ArgsIdle

\* The module is imported and some object is about to be inspected.
InitArgs == ConfInit /\ ArgsInit

\* Construction of configurations by concurrent threads.
Spec == Init /\ [][ConstructNext]_vars

\* Construction of configurations, and clients using the constructed objects.
SpecClient == Init /\ [][ConstructNext \/ ClientNext]_vars

\* Calls of the parameter testers and validators on every object.
SpecArgs == InitArgs /\ [][ArgsNext]_vars

(***************************************************************************)
(* Properties of BeartypeConfiguration.                                    *)
(***************************************************************************)
\* The bound arguments of the call that constructed o are valid.
ValidCtorArgs(o) ==
    /\ heap[o].ctor_debug \in {"False", "True"}
    /\ heap[o].ctor_strategy \in {"O0", "O1", "Ologn", "On"}

\* C1: any two BeartypeConfiguration(...) calls made with identical
\* (is_debug, strategy) values return the same instance.
C1_SameFieldsSameInstance ==
    \A o1, o2 \in Published :
        (/\ heap[o1].ctor_debug = heap[o2].ctor_debug
         /\ heap[o1].ctor_strategy = heap[o2].ctor_strategy) => o1 = o2

\* C2: concurrent BeartypeConfiguration(...) calls with identical field
\* values create one instance between them: whenever two threads are about
\* to return from such calls, they return the same instance.
C2_ConcurrentCallersShareInstance ==
    \A t1, t2 \in Threads :
        (/\ pc[t1] = "return" /\ pc[t2] = "return"
         /\ frame[t1].is_debug = frame[t2].is_debug
         /\ frame[t1].strategy = frame[t2].strategy)
        => frame[t1].self = frame[t2].self

\* C3: a call with a boolean is_debug and a member strategy never raises,
\* the object it returns has exactly the arguments as is_debug and strategy,
\* False and BeartypeStrategy.O1 standing in for omitted arguments, and
\* these defaults are the fields of BEAR_CONF_DEFAULT.
C3_ConstructSetsFields ==
    /\ \A o \in DOMAIN heap : ValidCtorArgs(o) => heap[o].state # "dropped"
    /\ \A t \in Threads : pc[t] = "return" =>
          /\ heap[frame[t].self].is_debug =
                 (IF frame[t].dArg = Omitted THEN "False" ELSE frame[t].dArg)
          /\ heap[frame[t].self].strategy =
                 (IF frame[t].sArg = Omitted THEN "O1" ELSE frame[t].sArg)
    /\ \A o \in Published :
          /\ heap[o].is_debug = heap[o].ctor_debug
          /\ heap[o].strategy = heap[o].ctor_strategy
    /\ BEAR_CONF_DEFAULT \in Published
    /\ heap[BEAR_CONF_DEFAULT].is_debug = "False"
    /\ heap[BEAR_CONF_DEFAULT].strategy = "O1"

\* A call passing True and omitting strategy is about to return an object
\* whose fields are True and BeartypeStrategy.O1.
C3_Witness ==
    \E t \in Threads :
        /\ pc[t] = "return"
        /\ frame[t].dArg = "True" /\ frame[t].sArg = Omitted
        /\ heap[frame[t].self].is_debug = "True"
        /\ heap[frame[t].self].strategy = "O1"

\* C4: a call whose is_debug is not a bool or whose strategy is not a
\* BeartypeStrategy member raises ValueError before any attribute of the
\* object is assigned, and the object is never returned.
C4_InvalidArgsRaise ==
    /\ \A o \in DOMAIN heap : ~ValidCtorArgs(o) =>
          /\ heap[o].state # "returned"
          /\ heap[o].is_debug = Unset /\ heap[o].strategy = Unset
          /\ heap[o].state = "dropped" => heap[o].exc = "ValueError"
    /\ \A t \in Threads :
          pc[t] \in {"assign_debug", "assign_strategy", "return"}
              => ValidCtorArgs(frame[t].self)
    /\ \A o \in DOMAIN heap : heap[o].state = "dropped" => ~ValidCtorArgs(o)

\* A call with a valid is_debug and the string 'O1' as strategy has raised.
C4_Witness ==
    \E o \in DOMAIN heap :
        /\ heap[o].state = "dropped" /\ heap[o].exc = "ValueError"
        /\ heap[o].ctor_debug = "True" /\ heap[o].ctor_strategy = "str:O1"
        /\ heap[o].is_debug = Unset /\ heap[o].strategy = Unset

\* C5: every configuration a call has returned, BEAR_CONF_DEFAULT included,
\* still holds the field values it was constructed with.
C5_FieldsNeverChange ==
    \A o \in Published :
        /\ heap[o].is_debug = heap[o].ctor_debug
        /\ heap[o].strategy = heap[o].ctor_strategy

(***************************************************************************)
(* Properties of the parameter testers and validators.                     *)
(***************************************************************************)
\* func resolves to a code object: it is a pure-Python callable, a frame or
\* a code object.
IsCodeobjable(f) == f.kind \in {"function", "code", "frame"}

\* Number of parameters of the given kinds the callable declares.
CountDeclared(f, kinds) ==
    Cardinality({i \in DOMAIN f.sig : f.sig[i].kind \in kinds})

\* Python binds a call passing no argument to the declaration: every
\* parameter that is no collector has a default.
AcceptsCallWithoutArgs(f) ==
    \A i \in DOMAIN f.sig :
        f.sig[i].kind \notin {"VAR_POSITIONAL", "VAR_KEYWORD"} => f.sig[i].dflt

DeclaresDefault(f) == \E i \in DOMAIN f.sig : f.sig[i].dflt

DeclaresCollector(f) == CountDeclared(f, {"VAR_POSITIONAL", "VAR_KEYWORD"}) > 0

ArglessCalled == call.op = "is_func_argless" /\ IsCodeobjable(func)

\* C6 as stated: is_func_argless returns True iff the callable declares no
\* flexible parameter, no keyword-only parameter and neither collector.
C6_ArglessIffNoFlexibleOrKwonly ==
    ArglessCalled =>
        /\ result.status = "return"
        /\ result.value \in {"True", "False"}
        /\ result.value = "True" <=>
              /\ CountDeclared(func, {"POSITIONAL_OR_KEYWORD"}) = 0
              /\ CountDeclared(func, {"KEYWORD_ONLY"}) = 0
              /\ CountDeclared(func, {"VAR_POSITIONAL"}) = 0
              /\ CountDeclared(func, {"VAR_KEYWORD"}) = 0

\* C6 as amended: is_func_argless returns True iff the callable declares no
\* positional-only parameter, no flexible parameter, no keyword-only
\* parameter and neither collector, and False in every other case.
C6_ArglessIffNoParameter ==
    ArglessCalled =>
        /\ result.status = "return"
        /\ result.value \in {"True", "False"}
        /\ result.value = "True" <=>
              /\ CountDeclared(func, {"POSITIONAL_ONLY"}) = 0
              /\ CountDeclared(func, {"POSITIONAL_OR_KEYWORD"}) = 0
              /\ CountDeclared(func, {"KEYWORD_ONLY"}) = 0
              /\ CountDeclared(func, {"VAR_POSITIONAL"}) = 0
              /\ CountDeclared(func, {"VAR_KEYWORD"}) = 0

\* is_func_argless has returned False for def f(*, a, **b).
C6_Witness ==
    /\ call.op = "is_func_argless"
    /\ func.kind = "function" /\ func.wrappers = <<>>
    /\ func.sig = <<[name |-> "a", kind |-> "KEYWORD_ONLY", dflt |-> FALSE],
                    [name |-> "b", kind |-> "VAR_KEYWORD", dflt |-> FALSE]>>
    /\ result = Returned("False")

ArglessCalledOnFunction ==
    call.op = "is_func_argless" /\ func.kind = "function" /\ func.wrappers = <<>>

\* C7 as stated: is_func_argless(f) is True exactly when Python accepts the
\* call f().
C7_ArglessIffCallWithoutArgsAccepted ==
    ArglessCalledOnFunction =>
        (result.value = "True" <=> AcceptsCallWithoutArgs(func))

\* C7 as amended: is_func_argless(f) is True exactly when Python accepts the
\* call f() and f declares neither a parameter with a default nor a
\* collector.
C7_ArglessIffCallAcceptedWithoutDefaults ==
    ArglessCalledOnFunction =>
        (result.value = "True" <=>
            /\ AcceptsCallWithoutArgs(func)
            /\ ~DeclaresDefault(func)
            /\ ~DeclaresCollector(func))

\* is_func_argless has returned False for def f(a=...), which f() calls.
C7_Witness ==
    /\ ArglessCalledOnFunction
    /\ func.sig = <<[name |-> "a", kind |-> "POSITIONAL_OR_KEYWORD", dflt |-> TRUE]>>
    /\ AcceptsCallWithoutArgs(func)
    /\ result = Returned("False")

\* C8: die_unless_func_args_len_flexible_equal raises iff the number of
\* flexible parameters, collectors and keyword-only parameters left out,
\* differs from the expected number; the exception is of the class passed,
\* its message holds repr(func) and "<actual> != <expected>"; otherwise
\* the validator returns None.
C8_RaisesIffFlexibleCountDiffers ==
    (call.op = "die_unless_func_args_len_flexible_equal" /\ IsCodeobjable(func)) =>
        LET actual == CountDeclared(func, {"POSITIONAL_OR_KEYWORD"})
        IN  /\ result.status = "raise" <=> actual # call.n
            /\ result.status = "raise" =>
                  /\ result.exc = call.exception_cls
                  /\ result.origin = "die_unless_func_args_len_flexible_equal"
                  /\ Len(result.msg) = 7
                  /\ result.msg[2] = Repr(func)
                  /\ SubSeq(result.msg, 4, 6) =
                         <<IntToStr(actual), " != ", IntToStr(call.n)>>
            /\ result.status # "raise" => result = Returned("None")

\* The validator called with 2 on def f(a, *, b) has raised with "1 != 2".
C8_Witness ==
    /\ call.op = "die_unless_func_args_len_flexible_equal" /\ call.n = 2
    /\ func.kind = "function"
    /\ func.sig = <<[name |-> "a", kind |-> "POSITIONAL_OR_KEYWORD", dflt |-> FALSE],
                    [name |-> "b", kind |-> "KEYWORD_ONLY", dflt |-> FALSE]>>
    /\ result.status = "raise"
    /\ SubSeq(result.msg, 4, 6) = <<"1", " != ", "2">>

\* C9: is_func_arg_name returns a bool, True iff some declared parameter,
\* of whatever kind, has exactly the name searched for.
C9_ArgNameIffDeclared ==
    (call.op = "is_func_arg_name" /\ IsCodeobjable(func)) =>
        /\ result.status = "return"
        /\ result.value \in {"True", "False"}
        /\ result.value = "True" <=>
              \E i \in DOMAIN func.sig : func.sig[i].name = call.arg_name

\* is_func_arg_name has returned True for the name b and def f(**b).
C9_Witness ==
    /\ call.op = "is_func_arg_name" /\ call.arg_name = "b"
    /\ func.kind = "function"
    /\ func.sig = <<[name |-> "b", kind |-> "VAR_KEYWORD", dflt |-> FALSE]>>
    /\ result = Returned("True")

\* C10: called on a builtin callable or on a non-callable, every tester and
\* validator raises the exception get_func_codeobj raised, of the class
\* passed as exception_cls (_BeartypeUtilCallableException when the tester
\* takes none), and returns nothing.
C10_UnresolvableRaises ==
    (call.op # "" /\ ~IsCodeobjable(func)) =>
        /\ result.status = "raise"
        /\ result.value = ""
        /\ result.origin = "get_func_codeobj"
        /\ result.exc =
              (IF call.exception_cls # "" THEN call.exception_cls
               ELSE "_BeartypeUtilCallableException")
        /\ result.msg = <<Repr(func), " not pure-Python callable.">>

\* is_func_arg_variadic_positional has raised on a builtin callable.
C10_Witness ==
    /\ call.op = "is_func_arg_variadic_positional"
    /\ func.kind = "builtin"
    /\ result.status = "raise"
    /\ result.origin = "get_func_codeobj"

\* C11: is_func_arg_variadic_positional returns True iff the callable
\* declares a variadic positional collector, is_func_arg_variadic_keyword
\* returns True iff it declares a variadic keyword collector, whatever the
\* other parameters are, and is_func_arg_variadic returns True iff it
\* declares one or the other.
C11_VariadicTestersMatchDeclaration ==
    IsCodeobjable(func) =>
        /\ call.op = "is_func_arg_variadic_positional" =>
              result = Returned(BoolStr(CountDeclared(func, {"VAR_POSITIONAL"}) > 0))
        /\ call.op = "is_func_arg_variadic_keyword" =>
              result = Returned(BoolStr(CountDeclared(func, {"VAR_KEYWORD"}) > 0))
        /\ call.op = "is_func_arg_variadic" =>
              result = Returned(BoolStr(
                  \/ CountDeclared(func, {"VAR_POSITIONAL"}) > 0
                  \/ CountDeclared(func, {"VAR_KEYWORD"}) > 0))

\* is_func_arg_variadic has returned True for def f(a, **b), which declares
\* no variadic positional collector.
C11_Witness ==
    /\ call.op = "is_func_arg_variadic"
    /\ func.kind = "function" /\ func.wrappers = <<>>
    /\ func.sig = <<[name |-> "a", kind |-> "POSITIONAL_OR_KEYWORD", dflt |-> FALSE],
                    [name |-> "b", kind |-> "VAR_KEYWORD", dflt |-> FALSE]>>
    /\ result = Returned("True")

\* The callable at the end of the __wrapped__ chain, passed directly.
Innermost(f) == [f EXCEPT !.wrappers = <<>>]

\* What the tester last called returns when called on f.
TesterResult(f) ==
    CASE call.op = "is_func_argless" -> is_func_argless(f, call.exception_cls)
      [] call.op = "is_func_arg_variadic_positional" ->
             is_func_arg_variadic_positional(f)
      [] call.op = "is_func_arg_variadic_keyword" ->
             is_func_arg_variadic_keyword(f)
      [] call.op = "is_func_arg_variadic" -> is_func_arg_variadic(f)
      [] OTHER -> NoResult

WrapperTested ==
    /\ func.kind = "function" /\ func.wrappers # <<>>
    /\ call.op \in {"is_func_argless", "is_func_arg_variadic_positional",
                    "is_func_arg_variadic_keyword", "is_func_arg_variadic"}

====
